---------------------------- MODULE Spec2Model ----------------------------
(***************************************************************************)
(* A model of the subtitle scraper: the identifier extractor, the URL      *)
(* resolver, the result-page parser, the download selector and the batch   *)
(* driver of subtitle_scraper.py / subtitlecat.py.                         *)
(*                                                                         *)
(* Python str values are TLA+ strings (TLC treats them as sequences of     *)
(* one-character strings: Len, SubSeq and \o apply).  Paths follow         *)
(* posixpath.                                                              *)
(***************************************************************************)
EXTENDS Naturals, Sequences, FiniteSets, TLC

VARIABLES
    fn,       \* which unit is exercised: "extract", "url", "parse", "select", or "driver"
    arg,      \* the argument of the pure function under test
    ret,      \* its return value, once applied
    applied,  \* whether the function has been applied to arg
    \* ---- the command line and the file system
    mode,             \* what main finds input_arg to be: "folder", "file" or "keyword"
    input_arg,        \* args.input
    output_dir,       \* args.output_dir (None when not given)
    entries,          \* the input folder's entries other than subtitle files, in os.listdir order
    files,            \* the paths of the subtitle files that exist
    dirs,             \* the paths of the directories that exist
    \* ---- main and process_video_file
    run,              \* "first" or "second" invocation of the program
    pc,               \* where the program is
    download_folder,
    listing,          \* os.listdir(input_arg), taken once per run
    idx,              \* position of the loop over listing (1-based)
    video_path,
    keyword,
    filename_for_srt,
    results,          \* result['results']
    cand,             \* position of the loop over results (1-based)
    message,          \* the last line printed about the current item
    \* ---- what has happened for the current item
    calls,            \* the network requests issued, in order
    targets,          \* how many download targets were resolved
    invoked,          \* how many times main called process_video_file
    existed,          \* a canonical subtitle file existed when the item was considered
    wrote1            \* the items whose subtitle file the first run wrote

pureVars == <<fn, arg, ret, applied>>

fsVars == <<mode, input_arg, output_dir, entries, files, dirs>>

progVars == <<run, pc, download_folder, listing, idx, video_path, keyword,
              filename_for_srt, results, cand, message>>

histVars == <<calls, targets, invoked, existed, wrote1>>

driverVars == <<fsVars, progVars, histVars>>

vars == <<pureVars, driverVars>>

(***************************************************************************)
(* Bounds of the model.                                                    *)
(***************************************************************************)
MaxLen  == 5      \* longest string handed to extract_keyword
MaxTail == 2      \* longest tail appended to an URL prefix
MaxRows == 2      \* most table rows of a search-results page
MaxEntries == 2   \* most entries of the input folder
MaxResults == 2   \* most candidates a search returns
MaxButtons == 2   \* most anchors of a detail page

(***************************************************************************)
(* Python values and str methods.                                          *)
(***************************************************************************)
\* Python's None: a value no str operation of the model yields.
None == "<None>"

\* A Python value that is true and is not a str (a number, a list).
NotAStr == "<not a str>"

\* isinstance(v, str)
IsStr(v) == v \notin {None, NotAStr}

\* s[i-1:i]: the i-th character, or "" past either end
Ch(s, i) == IF 1 <= i /\ i <= Len(s) THEN SubSeq(s, i, i) ELSE ""

StartsWith(s, p) == Len(s) >= Len(p) /\ SubSeq(s, 1, Len(p)) = p

EndsWith(s, p) == Len(s) >= Len(p) /\ SubSeq(s, Len(s) - Len(p) + 1, Len(s)) = p

\* sub in s
Contains(s, sub) ==
    \E i \in 0..Len(s) : i + Len(sub) <= Len(s) /\ SubSeq(s, i + 1, i + Len(sub)) = sub

UpperLetters == "ABCDEFGHIJKLMNOPQRSTUVWXYZ"
LowerLetters == "abcdefghijklmnopqrstuvwxyz"
Digits == "0123456789"

UpperSet == {Ch(UpperLetters, i) : i \in 1..Len(UpperLetters)}
LetterSet == UpperSet \cup {Ch(LowerLetters, i) : i \in 1..Len(LowerLetters)}
DigitSet == {Ch(Digits, i) : i \in 1..Len(Digits)}

IsUpper(c) == c \in UpperSet
IsLetter(c) == c \in LetterSet
IsDigit(c) == c \in DigitSet
IsSpace(c) == c \in {" ", "\t", "\n"}

\* the lower-case letter of each upper-case letter
LowerMap ==
    [c \in UpperSet |->
        Ch(LowerLetters, CHOOSE i \in 1..Len(UpperLetters) : Ch(UpperLetters, i) = c)]

LowerCh(c) == IF IsUpper(c) THEN LowerMap[c] ELSE c

\* str.lower()
RECURSIVE LowerFrom(_, _)
LowerFrom(s, i) == IF i > Len(s) THEN "" ELSE LowerCh(Ch(s, i)) \o LowerFrom(s, i + 1)

Lower(s) == LowerFrom(s, 1)

\* str.strip()
\* s with its leading white space removed, from position i on
RECURSIVE LStripFrom(_, _)
LStripFrom(s, i) ==
    IF i <= Len(s) /\ IsSpace(Ch(s, i)) THEN LStripFrom(s, i + 1) ELSE SubSeq(s, i, Len(s))

LStrip(s) == LStripFrom(s, 1)

\* the first n characters of s with their trailing white space removed
RECURSIVE RStripTo(_, _)
RStripTo(s, n) ==
    IF n >= 1 /\ IsSpace(Ch(s, n)) THEN RStripTo(s, n - 1) ELSE SubSeq(s, 1, n)

RStrip(s) == RStripTo(s, Len(s))

Strip(s) == RStrip(LStrip(s))

\* str.rfind(c) for a one-character c, 1-based; 0 when absent
RECURSIVE RFindFrom(_, _, _)
RFindFrom(s, c, i) ==
    IF i = 0 THEN 0 ELSE IF Ch(s, i) = c THEN i ELSE RFindFrom(s, c, i - 1)

RFind(s, c) == RFindFrom(s, c, Len(s))

(***************************************************************************)
(* posixpath                                                               *)
(***************************************************************************)
\* os.path.basename
Basename(p) == SubSeq(p, RFind(p, "/") + 1, Len(p))

\* os.path.splitext: <<root, ext>>.  The extension starts at the last dot
\* of the last component, unless only dots precede it in that component.
Splitext(p) ==
    LET sep == RFind(p, "/")
        dot == RFind(p, ".")
    IN  IF dot > sep /\ \E k \in (sep + 1)..(dot - 1) : Ch(p, k) # "."
        THEN <<SubSeq(p, 1, dot - 1), SubSeq(p, dot, Len(p))>>
        ELSE <<p, "">>

\* os.path.join of two components
Join(a, b) ==
    IF StartsWith(b, "/") THEN b
    ELSE IF a = "" \/ EndsWith(a, "/") THEN a \o b
    ELSE a \o "/" \o b

\* s.rstrip('/')
RECURSIVE RStripSlashTo(_, _)
RStripSlashTo(s, n) ==
    IF n >= 1 /\ Ch(s, n) = "/" THEN RStripSlashTo(s, n - 1) ELSE SubSeq(s, 1, n)

RStripSlash(s) == RStripSlashTo(s, Len(s))

\* os.path.dirname
Dirname(p) ==
    LET head == SubSeq(p, 1, RFind(p, "/"))
    IN  IF RStripSlash(head) # "" THEN RStripSlash(head) ELSE head

\* The working directory of the process.
Cwd == "/w"

\* os.path.abspath, for the paths of the model (no '.', '..' or doubled '/')
Abspath(p) == Join(Cwd, p)

(***************************************************************************)
(* subtitle_scraper.extract_keyword                                        *)
(***************************************************************************)
\* The length of the longest run of letters ([A-Za-z]+) of s from position i.
RECURSIVE LetterRunFrom(_, _)
LetterRunFrom(s, i) == IF IsLetter(Ch(s, i)) THEN 1 + LetterRunFrom(s, i + 1) ELSE 0

LetterRun(s) == LetterRunFrom(s, 1)

\* The length of the longest run of digits (\d+) of s from position i.
RECURSIVE DigitRunFrom(_, _)
DigitRunFrom(s, i) == IF IsDigit(Ch(s, i)) THEN 1 + DigitRunFrom(s, i + 1) ELSE 0

\* re.match(r'^([A-Za-z]+-\d+)', s): group 1, or None.  Both quantifiers
\* are greedy and neither class overlaps the hyphen, so the match is the
\* longest run of letters, a hyphen, the longest run of digits.
ReMatchKeyword(s) ==
    LET n == LetterRun(s)
        m == DigitRunFrom(s, n + 2)
    IN  IF n >= 1 /\ Ch(s, n + 1) = "-" /\ m >= 1
        THEN SubSeq(s, 1, n + 1 + m)
        ELSE None

\* A slip: the digits are matched lazily, so only the first digit is kept.
extract_keyword_lazy(path) ==
    LET n == LetterRun(path)
    IN  IF ReMatchKeyword(path) # None
        THEN SubSeq(path, 1, n + 2)
        ELSE ReMatchKeyword(Splitext(Basename(path))[1])

\* A slip: the file name is never tried.
extract_keyword_raw_only(path) == ReMatchKeyword(path)

extract_keyword(path) ==
    LET filename == Splitext(Basename(path))[1]
    IN  IF ReMatchKeyword(path) # None
        THEN ReMatchKeyword(path)
        ELSE ReMatchKeyword(filename)

(***************************************************************************)
(* subtitlecat.format_subtitlecat_url                                      *)
(***************************************************************************)
Site == "https://www.subtitlecat.com"

\* A slip: any URL that starts with "http" passes for absolute.
format_subtitlecat_url_http(url) ==
    IF StartsWith(url, "/") THEN Site \o url
    ELSE IF ~StartsWith(url, "http") THEN Site \o "/" \o url
    ELSE url

format_subtitlecat_url(url) ==
    IF StartsWith(url, "/") THEN Site \o url
    ELSE IF ~(StartsWith(url, "http://") \/ StartsWith(url, "https://"))
         THEN Site \o "/" \o url
    ELSE url

(***************************************************************************)
(* subtitlecat.search_subtitlecat: the rows of the parsed page.  A row is  *)
(* [anchors, cells]: row.find_all('a') in document order, each anchor      *)
(* [text, href] with href = None when the attribute is absent, and the     *)
(* texts of row.find_all('td').                                            *)
(***************************************************************************)
\* row.find_all('a', href=True)
Links(row) == SelectSeq(row.anchors, LAMBDA a : a.href # None)

\* A slip: the title is compared with the keyword as typed.
IsRelevant_cased(link, kw) ==
    \/ Contains(Lower(Strip(link.text)), kw)
    \/ Contains(link.href, "/view.php?")
    \/ Contains(link.href, "/subs/")

\* keyword_lower in title.lower() or '/view.php?' in href or '/subs/' in href
IsRelevant(link, kw) ==
    \/ Contains(Lower(Strip(link.text)), Lower(kw))
    \/ Contains(link.href, "/view.php?")
    \/ Contains(link.href, "/subs/")

\* "Handle URL properly"
FullUrl(href) ==
    IF StartsWith(href, "/") THEN Site \o href
    ELSE IF StartsWith(href, "http") THEN href
    ELSE Site \o "/" \o href

\* The body of `for link in links`, from the i-th link on: the result of
\* the first relevant link, then break; nothing when no link is relevant.
RECURSIVE ScanLinks(_, _, _, _)
ScanLinks(links, i, row, kw) ==
    IF i > Len(links) THEN <<>>
    ELSE IF IsRelevant(links[i], kw)
         THEN << [title    |-> Strip(links[i].text),
                  url      |-> FullUrl(links[i].href),
                  language |-> IF Len(row.cells) > 1 THEN Strip(row.cells[2]) ELSE ""] >>
         ELSE ScanLinks(links, i + 1, row, kw)

\* `for row in rows`, from the i-th row on: results, in the order appended
RECURSIVE ParseRowsFrom(_, _, _)
ParseRowsFrom(rows, i, kw) ==
    IF i > Len(rows) THEN <<>>
    ELSE ScanLinks(Links(rows[i]), 1, rows[i], kw) \o ParseRowsFrom(rows, i + 1, kw)

ParseRows(rows, kw) == ParseRowsFrom(rows, 1, kw)

(***************************************************************************)
(* subtitlecat.check_chinese_download_buttons.  The page is the list of    *)
(* its anchors in document order, each [cls, id, text, href]: cls tells    *)
(* whether 'green-link' is among the classes, id and href are None when    *)
(* the attribute is absent.                                                *)
(***************************************************************************)
\* link.get(attr, '')
Get(v) == IF v = None THEN "" ELSE v

\* soup.find_all('a', class_='green-link')
GreenLinks(anchors) == SelectSeq(anchors, LAMBDA a : a.cls)

\* A slip: the visible text is compared as typed.
IsDownloadLink_cased(link) ==
    \/ Contains(Lower(Get(link.id)), "download")
    \/ Contains(link.text, "download")

\* 'download' in link.get('id', '').lower() or 'download' in link.text.lower()
IsDownloadLink(link) ==
    \/ Contains(Lower(Get(link.id)), "download")
    \/ Contains(Lower(link.text), "download")

\* 'zh-XX' in link.get('id', '') or 'zh-XX' in link.get('href', '')
HasTag(link, tag) == Contains(Get(link.id), tag) \/ Contains(Get(link.href), tag)

\* chinese_info["download_links"][tag] = url
SetLink(download_links, tag, url) ==
    [t \in DOMAIN download_links \cup {tag} |-> IF t = tag THEN url ELSE download_links[t]]

\* the two `if` statements of the loop body, for a download link
MarkLink(info, link) ==
    LET url == format_subtitlecat_url(Get(link.href))
        cn  == IF HasTag(link, "zh-CN")
               THEN [info EXCEPT !.chinese_simplified = TRUE,
                                 !.download_links = SetLink(@, "zh-CN", url)]
               ELSE info
    IN  IF HasTag(link, "zh-TW")
        THEN [cn EXCEPT !.chinese_traditional = TRUE,
                        !.download_links = SetLink(@, "zh-TW", url)]
        ELSE cn

\* `for link in download_links`, from the i-th link on
RECURSIVE ButtonsFrom(_, _, _)
ButtonsFrom(links, i, info) ==
    IF i > Len(links) THEN info
    ELSE ButtonsFrom(links, i + 1,
                     IF IsDownloadLink(links[i]) THEN MarkLink(info, links[i]) ELSE info)

check_chinese_download_buttons(anchors) ==
    ButtonsFrom(GreenLinks(anchors), 1,
                [chinese_simplified  |-> FALSE,
                 chinese_traditional |-> FALSE,
                 download_links      |-> <<>>])

(***************************************************************************)
(* subtitle_scraper.download_chinese_subtitle.  chinese_info.download_links*)
(* is a function from the variant tags present to their URLs.              *)
(***************************************************************************)
\* A slip: the branches are tested in the other order.
download_chinese_subtitle_tw_first(chinese_info, base, folder) ==
    LET download_links == chinese_info.download_links
    IN  IF "zh-TW" \in DOMAIN download_links
        THEN << download_links["zh-TW"], "Chinese Traditional (zh-TW)",
                Join(folder, base \o ".zh-TW.srt") >>
        ELSE IF "zh-CN" \in DOMAIN download_links
        THEN << download_links["zh-CN"], "Chinese Simplified (zh-CN)",
                Join(folder, base \o ".zh-CN.srt") >>
        ELSE << None, None, None >>

download_chinese_subtitle(chinese_info, base, folder) ==
    LET download_links == chinese_info.download_links
    IN  IF "zh-CN" \in DOMAIN download_links
        THEN << download_links["zh-CN"], "Chinese Simplified (zh-CN)",
                Join(folder, base \o ".zh-CN.srt") >>
        ELSE IF "zh-TW" \in DOMAIN download_links
        THEN << download_links["zh-TW"], "Chinese Traditional (zh-TW)",
                Join(folder, base \o ".zh-TW.srt") >>
        ELSE << None, None, None >>

(***************************************************************************)
(* subtitlecat.get_subtitle_page_content.  A response is what requests.get *)
(* and the parser make of the detail page: a request error (no connection, *)
(* or a status raise_for_status rejects), a page the parser fails on, or   *)
(* a page with the links check_chinese_download_buttons finds in it.       *)
(***************************************************************************)
DetailLinks ==
    { [t \in tags |-> Site \o "/dl/" \o t] : tags \in {{}, {"zh-TW"}, {"zh-CN", "zh-TW"}} }

DetailResponses ==
    { [kind |-> "request_error", links |-> <<>>], [kind |-> "parse_error", links |-> <<>>] }
    \cup { [kind |-> "page", links |-> m] : m \in DetailLinks }

\* A slip: the URL is not validated.
get_subtitle_page_content_unvalidated(url, response) ==
    IF response.kind = "request_error" THEN [error |-> "Request error"]
    ELSE IF response.kind = "parse_error" THEN [error |-> "Parsing error"]
    ELSE [url               |-> format_subtitlecat_url(url),
          page_title        |-> "t",
          chinese_downloads |-> [chinese_simplified  |-> "zh-CN" \in DOMAIN response.links,
                                 chinese_traditional |-> "zh-TW" \in DOMAIN response.links,
                                 download_links      |-> response.links],
          status            |-> "success"]

\* get_subtitle_page_content(url), given the site's response
get_subtitle_page_content(url, response) ==
    IF url = "" \/ ~IsStr(url) THEN [error |-> "Invalid URL provided"]
    ELSE IF response.kind = "request_error" THEN [error |-> "Request error"]
    ELSE IF response.kind = "parse_error" THEN [error |-> "Parsing error"]
    ELSE [url               |-> format_subtitlecat_url(url),
          page_title        |-> "t",
          chinese_downloads |-> [chinese_simplified  |-> "zh-CN" \in DOMAIN response.links,
                                 chinese_traditional |-> "zh-TW" \in DOMAIN response.links,
                                 download_links      |-> response.links],
          status            |-> "success"]

(***************************************************************************)
(* subtitle_scraper.download_subtitle_file.  The outcome is what the file  *)
(* system and the site do: os.makedirs fails, the GET fails or has a       *)
(* status raise_for_status rejects, open fails, f.write fails once open    *)
(* has created or truncated the file, or all succeed.                      *)
(***************************************************************************)
DownloadOutcomes == {"makedirs_error", "request_error", "open_error", "write_error", "ok"}

\* A slip: only requests' exceptions are caught, a failed write propagates.
download_subtitle_file_uncaught(url, full_path, outcome) ==
    LET folder == Dirname(full_path)
    IN  IF folder \notin dirs /\ outcome = "makedirs_error"
        THEN [raised |-> FALSE, success |-> FALSE, requested |-> FALSE,
              message |-> "Error creating download folder",
              dirs |-> dirs, files |-> files]
        ELSE IF outcome = "request_error"
        THEN [raised |-> FALSE, success |-> FALSE, requested |-> TRUE,
              message |-> "Error downloading subtitle",
              dirs |-> dirs \cup {folder}, files |-> files]
        ELSE IF outcome = "open_error"
        THEN [raised |-> TRUE, success |-> FALSE, requested |-> TRUE,
              message |-> "Traceback",
              dirs |-> dirs \cup {folder}, files |-> files]
        ELSE IF outcome = "write_error"
        THEN [raised |-> TRUE, success |-> FALSE, requested |-> TRUE,
              message |-> "Traceback",
              dirs |-> dirs \cup {folder}, files |-> files \cup {full_path}]
        ELSE [raised |-> FALSE, success |-> TRUE, requested |-> TRUE,
              message |-> "Subtitle downloaded successfully",
              dirs |-> dirs \cup {folder}, files |-> files \cup {full_path}]

\* A slip: one except clause reports every failure as a download error.
download_subtitle_file_one_handler(url, full_path, outcome) ==
    LET folder == Dirname(full_path)
    IN  IF folder \notin dirs /\ outcome = "makedirs_error"
        THEN [raised |-> FALSE, success |-> FALSE, requested |-> FALSE,
              message |-> "Error creating download folder",
              dirs |-> dirs, files |-> files]
        ELSE IF outcome \in {"request_error", "open_error"}
        THEN [raised |-> FALSE, success |-> FALSE, requested |-> TRUE,
              message |-> "Error downloading subtitle",
              dirs |-> dirs \cup {folder}, files |-> files]
        ELSE IF outcome = "write_error"
        THEN [raised |-> FALSE, success |-> FALSE, requested |-> TRUE,
              message |-> "Error downloading subtitle",
              dirs |-> dirs \cup {folder}, files |-> files \cup {full_path}]
        ELSE [raised |-> FALSE, success |-> TRUE, requested |-> TRUE,
              message |-> "Subtitle downloaded successfully",
              dirs |-> dirs \cup {folder}, files |-> files \cup {full_path}]

\* A slip: the file is opened for writing before the request is made.
download_subtitle_file_open_first(url, full_path, outcome) ==
    LET folder == Dirname(full_path)
    IN  IF folder \notin dirs /\ outcome = "makedirs_error"
        THEN [raised |-> FALSE, success |-> FALSE, requested |-> FALSE,
              message |-> "Error creating download folder",
              dirs |-> dirs, files |-> files]
        ELSE IF outcome = "request_error"
        THEN [raised |-> FALSE, success |-> FALSE, requested |-> TRUE,
              message |-> "Error downloading subtitle",
              dirs |-> dirs \cup {folder}, files |-> files \cup {full_path}]
        ELSE IF outcome = "open_error"
        THEN [raised |-> FALSE, success |-> FALSE, requested |-> TRUE,
              message |-> "Error saving subtitle",
              dirs |-> dirs \cup {folder}, files |-> files]
        ELSE IF outcome = "write_error"
        THEN [raised |-> FALSE, success |-> FALSE, requested |-> TRUE,
              message |-> "Error saving subtitle",
              dirs |-> dirs \cup {folder}, files |-> files \cup {full_path}]
        ELSE [raised |-> FALSE, success |-> TRUE, requested |-> TRUE,
              message |-> "Subtitle downloaded successfully",
              dirs |-> dirs \cup {folder}, files |-> files \cup {full_path}]

\* download_subtitle_file(url, full_path), given what the file system and
\* the site do: the (success, message) returned, whether the GET was issued,
\* and the directories and files afterwards.
download_subtitle_file(url, full_path, outcome) ==
    LET folder == Dirname(full_path)
    IN  IF folder \notin dirs /\ outcome = "makedirs_error"
        THEN [raised |-> FALSE, success |-> FALSE, requested |-> FALSE,
              message |-> "Error creating download folder",
              dirs |-> dirs, files |-> files]
        ELSE IF outcome = "request_error"
        THEN [raised |-> FALSE, success |-> FALSE, requested |-> TRUE,
              message |-> "Error downloading subtitle",
              dirs |-> dirs \cup {folder}, files |-> files]
        ELSE IF outcome = "open_error"
        THEN [raised |-> FALSE, success |-> FALSE, requested |-> TRUE,
              message |-> "Error saving subtitle",
              dirs |-> dirs \cup {folder}, files |-> files]
        ELSE IF outcome = "write_error"
        THEN [raised |-> FALSE, success |-> FALSE, requested |-> TRUE,
              message |-> "Error saving subtitle",
              dirs |-> dirs \cup {folder}, files |-> files \cup {full_path}]
        ELSE [raised |-> FALSE, success |-> TRUE, requested |-> TRUE,
              message |-> "Subtitle downloaded successfully",
              dirs |-> dirs \cup {folder}, files |-> files \cup {full_path}]

(***************************************************************************)
(* The functions on their own: each is applied to one argument drawn from  *)
(* a bounded set.                                                          *)
(***************************************************************************)
RECURSIVE StrsUpTo(_, _)
StrsUpTo(alphabet, n) ==
    IF n = 0 THEN {""}
    ELSE LET S == StrsUpTo(alphabet, n - 1)
         IN  S \cup {s \o c : s \in S, c \in alphabet}

RECURSIVE SeqsUpTo(_, _)
SeqsUpTo(S, n) ==
    IF n = 0 THEN {<<>>}
    ELSE LET Q == SeqsUpTo(S, n - 1)
         IN  Q \cup {Append(q, x) : q \in Q, x \in S}

ExtractInputs == StrsUpTo({"A", "b", "-", "1", ".", "/"}, MaxLen)

UrlInputs ==
    {p \o t : p \in {"", "/", "http://", "https://", "http", "https:/", "HTTP://", "ftp://"},
              t \in StrsUpTo({"a", "/", "."}, MaxTail)}

Anchors ==
    { [text |-> " xAB-1 zh ", href |-> "d/1"],
      [text |-> "v",          href |-> "/view.php?i"],
      [text |-> "s",          href |-> "https://h/subs/a"],
      [text |-> "Ab-2",       href |-> "view.php?i"],
      [text |-> "Ab-1",       href |-> None],
      [text |-> "h",          href |-> "http/subs/b"] }

\* Rows of up to two anchors with a language cell, and rows of one anchor
\* with no cell or a single cell.
Rows ==
    { [anchors |-> a, cells |-> <<"t", " zh \n">>] :
        a \in {<<>>} \cup {<<x>> : x \in Anchors}
                     \cup {<<x, y>> : x \in Anchors, y \in Anchors} }
    \cup
    { [anchors |-> <<x>>, cells |-> c] : x \in Anchors, c \in {<<>>, <<"t">>} }

ParseInputs == {[rows |-> r, keyword |-> "Ab-1"] : r \in SeqsUpTo(Rows, MaxRows)}

LinkMaps ==
    UNION { [tags -> {"/dl/a", "https://h/b"}] : tags \in SUBSET {"zh-CN", "zh-TW"} }

SelectInputs ==
    { [chinese_info     |-> [chinese_simplified  |-> "zh-CN" \in DOMAIN m,
                             chinese_traditional |-> "zh-TW" \in DOMAIN m,
                             download_links      |-> m],
       filename_for_srt |-> b,
       download_folder  |-> d] :
        m \in LinkMaps, b \in {"AB-1", "AB-1-x", "v/AB-1", "/v/AB-1.mp4"},
        d \in {".", "o", "o/", "/o"} }

\* the anchors of detail pages
Buttons ==
    { [cls |-> TRUE,  id |-> "download_zh-CN", text |-> "x",        href |-> "/s/a"],
      [cls |-> TRUE,  id |-> None,             text |-> "Download", href |-> "/s/zh-TW"],
      [cls |-> TRUE,  id |-> "DOWNLOAD_zh-TW", text |-> "",         href |-> None],
      [cls |-> FALSE, id |-> "download_zh-CN", text |-> "download", href |-> "/s/c"],
      [cls |-> TRUE,  id |-> "zh-CN",          text |-> "get",      href |-> "/s/d"],
      [cls |-> TRUE,  id |-> "download_zh-cn", text |-> "x",        href |-> "s/e"],
      [cls |-> TRUE,  id |-> "download_zh-CN", text |-> "x",        href |-> "https://h/f"],
      [cls |-> TRUE,  id |-> "download",       text |-> "",         href |-> "g/zh-CNzh-TW"] }

ButtonInputs == SeqsUpTo(Buttons, MaxButtons)

\* the URLs get_subtitle_page_content is called with, and what the site does
DetailInputs ==
    [url      : {None, "", NotAStr, "/subs/a", "subs/a", Site \o "/subs/a"},
     response : DetailResponses]

\* the downloads download_subtitle_file is asked for, and what happens
DownloadInputs ==
    [url       : {Site \o "/dl/zh-CN"},
     full_path : {"o/AB-1.zh-CN.srt", "./AB-1-x.zh-TW.srt", "/v/o/AB-1.zh-CN.srt"},
     outcome   : DownloadOutcomes]

\* The driver at rest: the functions are called on their own.
DriverIdle ==
    /\ mode = "keyword" /\ input_arg = "" /\ output_dir = None
    /\ entries = <<>> /\ files = {}
    /\ run = "first" /\ pc = "idle" /\ download_folder = None /\ listing = <<>>
    /\ idx = 1 /\ video_path = None /\ keyword = None /\ filename_for_srt = None
    /\ results = <<>> /\ cand = 1 /\ message = ""
    /\ calls = <<>> /\ targets = 0 /\ invoked = 0 /\ existed = FALSE
    /\ wrote1 = {}

InitPure ==
    /\ DriverIdle
    /\ fn \in {"extract", "url", "parse", "select", "buttons", "detail", "download"}
    /\ arg \in CASE fn = "extract" -> ExtractInputs
              [] fn = "url"     -> UrlInputs
              [] fn = "parse"   -> ParseInputs
              [] fn = "select"  -> SelectInputs
              [] fn = "buttons" -> ButtonInputs
              [] fn = "detail"  -> DetailInputs
              [] fn = "download" -> DownloadInputs
    /\ dirs \in IF fn = "download"
                THEN {d \in {{"."}, {".", "o"}} :
                         arg.outcome = "makedirs_error" => Dirname(arg.full_path) \notin d}
                ELSE {{}}
    /\ ret = None
    /\ applied = FALSE

ApplyExtract ==
    /\ fn = "extract" /\ ~applied
    /\ ret' = extract_keyword(arg)
    /\ applied' = TRUE
    /\ UNCHANGED <<fn, arg, driverVars>>

ApplyFormatUrl ==
    /\ fn = "url" /\ ~applied
    /\ ret' = format_subtitlecat_url(arg)
    /\ applied' = TRUE
    /\ UNCHANGED <<fn, arg, driverVars>>

ApplyParse ==
    /\ fn = "parse" /\ ~applied
    /\ ret' = ParseRows(arg.rows, arg.keyword)
    /\ applied' = TRUE
    /\ UNCHANGED <<fn, arg, driverVars>>

ApplySelect ==
    /\ fn = "select" /\ ~applied
    /\ ret' = download_chinese_subtitle(arg.chinese_info, arg.filename_for_srt,
                                        arg.download_folder)
    /\ applied' = TRUE
    /\ UNCHANGED <<fn, arg, driverVars>>

ApplyButtons ==
    /\ fn = "buttons" /\ ~applied
    /\ ret' = check_chinese_download_buttons(arg)
    /\ applied' = TRUE
    /\ UNCHANGED <<fn, arg, driverVars>>

ApplyDetail ==
    /\ fn = "detail" /\ ~applied
    /\ ret' = get_subtitle_page_content(arg.url, arg.response)
    /\ applied' = TRUE
    /\ UNCHANGED <<fn, arg, driverVars>>

\* download_subtitle_file called on its own: the result and the file system
ApplyDownload ==
    /\ fn = "download" /\ ~applied
    /\ LET r == download_subtitle_file(arg.url, arg.full_path, arg.outcome)
       IN  /\ ret' = [success |-> r.success, message |-> r.message,
                      raised |-> r.raised, requested |-> r.requested]
           /\ dirs' = r.dirs
           /\ files' = r.files
    /\ applied' = TRUE
    /\ UNCHANGED <<fn, arg, mode, input_arg, output_dir, entries, progVars, histVars>>

NextPure ==
    \/ ApplyExtract
    \/ ApplyFormatUrl
    \/ ApplyParse
    \/ ApplySelect
    \/ ApplyButtons
    \/ ApplyDetail
    \/ ApplyDownload

SpecPure == InitPure /\ [][NextPure]_vars

\* d/name: the path of the file called name in directory d
InFolder(d, name) == IF EndsWith(d, "/") THEN d \o name ELSE d \o "/" \o name

(***************************************************************************)
(* subtitle_scraper: the helpers of the batch driver.                      *)
(***************************************************************************)
video_extensions == {".mp4", ".avi", ".mkv", ".mov", ".wmv", ".flv", ".webm", ".m4v", ".ts"}

\* A slip: the extension is compared as typed.
is_video_file_cased(filename) == Splitext(filename)[2] \in video_extensions

is_video_file(filename) == Lower(Splitext(filename)[2]) \in video_extensions

\* hidden_attr: os.stat(filepath).st_file_attributes can be read and has
\* FILE_ATTRIBUTE_HIDDEN (never so where the platform has no such field).
is_hidden_file(filepath, hidden_attr) ==
    IF StartsWith(Basename(filepath), ".") THEN TRUE ELSE hidden_attr

\* A slip: only the two names of the docstring are probed.
is_subtitle_exists_variants(kw, folder) ==
    IF Join(folder, kw \o ".zh-CN.srt") \in files
    THEN <<TRUE, Join(folder, kw \o ".zh-CN.srt")>>
    ELSE IF Join(folder, kw \o ".zh-TW.srt") \in files
    THEN <<TRUE, Join(folder, kw \o ".zh-TW.srt")>>
    ELSE <<FALSE, None>>

\* os.path.exists(full_path) for each of the three names, in order
is_subtitle_exists(kw, folder) ==
    IF Join(folder, kw \o ".zh-CN.srt") \in files
    THEN <<TRUE, Join(folder, kw \o ".zh-CN.srt")>>
    ELSE IF Join(folder, kw \o ".zh-TW.srt") \in files
    THEN <<TRUE, Join(folder, kw \o ".zh-TW.srt")>>
    ELSE IF Join(folder, kw \o ".srt") \in files
    THEN <<TRUE, Join(folder, kw \o ".srt")>>
    ELSE <<FALSE, None>>

(***************************************************************************)
(* The remote site.  A response is what requests.get and the parser make   *)
(* of it: a request error (no connection, or a status raise_for_status     *)
(* rejects), a page the parser fails on, or a page.                        *)
(***************************************************************************)
ResultRow == [anchors |-> <<[text |-> "s", href |-> "/subs/a"]>>, cells |-> <<"t", "zh">>]

SearchResponses ==
    { [kind |-> "request_error", rows |-> <<>>], [kind |-> "parse_error", rows |-> <<>>] }
    \cup { [kind |-> "page", rows |-> [i \in 1..n |-> ResultRow]] : n \in 0..MaxResults }

\* The None a function returns in place of a dict.
NoneDict == [none |-> TRUE]

\* search_subtitlecat(keyword), given the site's response: None, or the
\* dict with its 'results'
search_subtitlecat(kw, response) ==
    IF kw = None \/ kw = "" THEN NoneDict
    ELSE IF response.kind # "page" THEN NoneDict
    ELSE [page_title |-> "t", results |-> ParseRows(response.rows, kw), status_code |-> 200]

(***************************************************************************)
(* The command lines and file systems the driver is started on.            *)
(***************************************************************************)
EntryPool ==
    { [name |-> "AB-1.mp4",   kind |-> "file", hidden |-> FALSE],
      [name |-> "AB-1-x.MKV", kind |-> "file", hidden |-> FALSE],
      [name |-> ".CD-2.mp4",  kind |-> "file", hidden |-> FALSE],
      [name |-> "CD-2.avi",   kind |-> "file", hidden |-> TRUE],
      [name |-> "movie.mp4",  kind |-> "file", hidden |-> FALSE],
      [name |-> "CD-2.txt",   kind |-> "file", hidden |-> FALSE],
      [name |-> "CD-2.ts",    kind |-> "dir",  hidden |-> FALSE] }

\* the folder's possible contents: lists of entries with distinct names
Listings ==
    {l \in SeqsUpTo(EntryPool, MaxEntries) :
        \A i, j \in 1..Len(l) : i # j => l[i].name # l[j].name}

\* the subtitle files already in the output folder
PreExisting == { {}, {"AB-1.srt"}, {"AB-1.zh-TW.srt"}, {"AB-1.zh-CN.srt"} }

\* main's choice of download_folder (lines 256-257, 295-296, 305-306)
DownloadFolder ==
    IF output_dir # None THEN output_dir
    ELSE IF mode = "folder" THEN input_arg
    ELSE IF mode = "file" THEN Dirname(Abspath(input_arg))
    ELSE "."

\* a set of names as a list, in some fixed order
RECURSIVE SeqOf(_)
SeqOf(S) == IF S = {} THEN <<>> ELSE LET x == CHOOSE x \in S : TRUE IN <<x>> \o SeqOf(S \ {x})

\* os.listdir(input_arg): the folder's entries and the subtitle files in it
ListDir ==
    LET subs == SeqOf({Basename(f) : f \in {g \in files : Dirname(g) = input_arg}})
    IN  entries \o [i \in 1..Len(subs) |-> [name |-> subs[i], kind |-> "file", hidden |-> FALSE]]

NoItem ==
    /\ video_path = None /\ keyword = None /\ filename_for_srt = None
    /\ results = <<>> /\ cand = 1 /\ message = ""
    /\ calls = <<>> /\ targets = 0 /\ invoked = 0 /\ existed = FALSE

\* the folders main is given, with the --output-dir option if any
FolderRuns == { <<"d", None>>, <<"d", "o">> }

Init ==
    /\ fn = "driver" /\ arg = None /\ ret = None /\ applied = FALSE
    /\ \/ /\ mode = "folder"
          /\ \E fr \in FolderRuns : input_arg = fr[1] /\ output_dir = fr[2]
          /\ entries \in Listings
       \/ /\ mode = "file"
          /\ input_arg \in {"d/AB-1.mp4", "d/AB-1-x.mp4", "ZZ-9/AB-1.mp4", "d/movie.mp4"}
          /\ output_dir \in {None, "o"}
          /\ entries = <<>>
       \/ /\ mode = "keyword"
          /\ input_arg \in {"AB-1", "ab-1x", "/v/AB-1.mp4", "movie"}
          /\ output_dir \in {None, "o"}
          /\ entries = <<>>
    /\ \E pre \in PreExisting : files = {Join(DownloadFolder, n) : n \in pre}
    /\ dirs = {"."} \cup (IF mode = "folder" THEN {input_arg} ELSE {})
                    \cup (IF mode = "file" THEN {Dirname(Abspath(input_arg))} ELSE {})
                    \cup (IF files # {} THEN {DownloadFolder} ELSE {})
    /\ run = "first" /\ pc = "start"
    /\ download_folder = None /\ listing = <<>> /\ idx = 1
    /\ NoItem
    /\ wrote1 = {}

\* the variables of the current item, as before any item
ResetItem ==
    /\ video_path' = None /\ keyword' = None /\ filename_for_srt' = None
    /\ results' = <<>> /\ cand' = 1 /\ message' = ""
    /\ calls' = <<>> /\ targets' = 0 /\ invoked' = 0 /\ existed' = FALSE

\* where control goes when the item is finished
ItemDone == IF mode = "folder" THEN "next" ELSE "done"

\* main, lines 248-264, 292-300, 304-313
MainStart ==
    /\ pc = "start"
    /\ download_folder' = DownloadFolder
    /\ IF mode = "folder"
       THEN /\ listing' = ListDir
            /\ pc' = "loop"
            /\ UNCHANGED video_path
       ELSE IF mode = "file"
       THEN /\ pc' = "pvf"
            /\ video_path' = input_arg
            /\ UNCHANGED listing
       ELSE /\ pc' = "kw"
            /\ UNCHANGED <<listing, video_path>>
    /\ UNCHANGED <<pureVars, fsVars, run, idx, keyword, filename_for_srt, results, cand,
                   message, histVars>>

\* main, lines 265-286: one entry of the folder
MainLoopEntry ==
    /\ pc = "loop" /\ idx <= Len(listing)
    /\ LET filename  == listing[idx].name
           file_path == Join(input_arg, filename)
           kw        == extract_keyword(file_path)
       IN  /\ existed' = (kw # None /\ \E suffix \in {".zh-CN.srt", ".zh-TW.srt", ".srt"} :
                              InFolder(download_folder, kw \o suffix) \in files)
           /\ IF is_hidden_file(file_path, listing[idx].hidden)
              THEN /\ pc' = "next" /\ message' = ""
                   /\ UNCHANGED <<video_path, invoked>>
              ELSE IF ~(listing[idx].kind = "file" /\ is_video_file(filename))
              THEN /\ pc' = "next" /\ message' = ""
                   /\ UNCHANGED <<video_path, invoked>>
              ELSE IF kw = None
              THEN /\ pc' = "next" /\ message' = "No valid keyword found"
                   /\ UNCHANGED <<video_path, invoked>>
              ELSE IF is_subtitle_exists(kw, download_folder)[1]
              THEN /\ pc' = "next" /\ message' = "Subtitle file already exists"
                   /\ UNCHANGED <<video_path, invoked>>
              ELSE /\ pc' = "pvf" /\ message' = "Found keyword"
                   /\ video_path' = file_path
                   /\ invoked' = invoked + 1
    /\ UNCHANGED <<pureVars, fsVars, run, download_folder, listing, idx, keyword,
                   filename_for_srt, results, cand, calls, targets, wrote1>>

\* The search of lines 121-128 and 329-336, for keyword kw.
Search(kw) ==
    \E response \in SearchResponses :
        LET result == search_subtitlecat(kw, response)
        IN  /\ calls' = Append(calls, "search")
            /\ IF "results" \notin DOMAIN result
               THEN /\ message' = "Failed to retrieve search results."
                    /\ pc' = ItemDone
                    /\ UNCHANGED results
               ELSE IF result.results = <<>>
               THEN /\ message' = "No results found."
                    /\ pc' = ItemDone
                    /\ UNCHANGED results
               ELSE /\ message' = "Found results"
                    /\ results' = result.results
                    /\ pc' = "cand"

\* process_video_file, lines 100-128
ProcessVideoFile ==
    /\ pc = "pvf"
    /\ LET kw == extract_keyword(video_path)
       IN  IF kw = None
           THEN /\ message' = "Could not extract keyword"
                /\ pc' = ItemDone
                /\ UNCHANGED <<keyword, filename_for_srt, results, calls, existed>>
           ELSE /\ existed' = \E suffix \in {".zh-CN.srt", ".zh-TW.srt", ".srt"} :
                                  InFolder(download_folder, kw \o suffix) \in files
                /\ IF is_subtitle_exists(kw, download_folder)[1]
                   THEN /\ message' = "Subtitle file already exists"
                        /\ pc' = ItemDone
                        /\ UNCHANGED <<keyword, filename_for_srt, results, calls>>
                   ELSE /\ keyword' = kw
                        /\ filename_for_srt' = Splitext(Basename(video_path))[1]
                        /\ Search(kw)
    /\ UNCHANGED <<pureVars, fsVars, run, download_folder, listing, idx, video_path,
                   cand, targets, invoked, wrote1>>

\* main, lines 311-336: a bare keyword
MainKeyword ==
    /\ pc = "kw"
    /\ LET kw == extract_keyword(input_arg)
       IN  IF kw = None
           THEN /\ message' = "Could not extract valid keyword"
                /\ pc' = "done"
                /\ UNCHANGED <<keyword, filename_for_srt, results, calls>>
           ELSE /\ keyword' = kw
                /\ filename_for_srt' = input_arg
                /\ Search(kw)
    /\ UNCHANGED <<pureVars, fsVars, run, download_folder, listing, idx, video_path,
                   cand, targets, invoked, existed, wrote1>>

\* A slip: the file is requested although the page gave no target.
NoDownload_fetching(text) ==
    /\ message' = text
    /\ calls' = calls \o <<"detail", "file">>
    /\ UNCHANGED <<dirs, files, targets, wrote1>>

\* the candidate's page had nothing to download: the file system stays
NoDownload(text) ==
    /\ message' = text
    /\ calls' = Append(calls, "detail")
    /\ UNCHANGED <<dirs, files, targets, wrote1>>

\* process_video_file, lines 158-163 (main, lines 366-371): the download of
\* the resolved target t = (download_url, language, full_path)
Download(t) ==
    \E outcome \in DownloadOutcomes :
        LET r == download_subtitle_file(t[1], t[3], outcome)
        IN  /\ outcome = "makedirs_error" => Dirname(t[3]) \notin dirs
            /\ dirs' = r.dirs
            /\ files' = r.files
            /\ calls' = IF r.requested THEN calls \o <<"detail", "file">>
                        ELSE Append(calls, "detail")
            /\ message' = r.message
            /\ pc' = IF r.raised THEN "crashed"
                     ELSE IF cand + 1 <= Len(results) THEN "cand" ELSE ItemDone
            /\ wrote1' = IF r.success /\ run = "first" THEN wrote1 \cup {idx} ELSE wrote1

\* process_video_file, lines 129-172 (main, lines 337-380): one pass of the
\* loop over the results
ProcessResult ==
    /\ pc = "cand" /\ cand <= Len(results)
    /\ cand' = cand + 1
    /\ \E response \in DetailResponses :
        LET page_content == get_subtitle_page_content(results[cand].url, response)
        IN  IF "error" \in DOMAIN page_content
            THEN /\ NoDownload("Error fetching result page content")
                 /\ pc' = IF cand + 1 <= Len(results) THEN "cand" ELSE ItemDone
            ELSE IF DOMAIN page_content.chinese_downloads.download_links = {}
            THEN /\ NoDownload("No Chinese download links found")
                 /\ pc' = IF cand + 1 <= Len(results) THEN "cand" ELSE ItemDone
            ELSE LET t == download_chinese_subtitle(page_content.chinese_downloads,
                                                    filename_for_srt, download_folder)
                 IN  IF t[1] # None /\ t[1] # ""
                     THEN /\ targets' = targets + 1
                          /\ Download(t)
                     ELSE /\ NoDownload("No Chinese subtitle available for download")
                          /\ pc' = IF cand + 1 <= Len(results) THEN "cand" ELSE ItemDone
    /\ UNCHANGED <<pureVars, mode, input_arg, output_dir, entries, run, download_folder,
                   listing, idx, video_path, keyword, filename_for_srt, results,
                   invoked, existed>>

\* main, line 265: the loop takes the next entry
NextEntry ==
    /\ pc = "next"
    /\ idx' = idx + 1
    /\ pc' = "loop"
    /\ ResetItem
    /\ UNCHANGED <<pureVars, fsVars, run, download_folder, listing, wrote1>>

\* main, lines 288-291: the folder is exhausted
MainLoopEnd ==
    /\ pc = "loop" /\ idx > Len(listing)
    /\ pc' = "done"
    /\ UNCHANGED <<pureVars, fsVars, run, download_folder, listing, idx, video_path,
                   keyword, filename_for_srt, results, cand, message, histVars>>

\* The program is run again, with the same command line.
Rerun ==
    /\ pc = "done" /\ run = "first"
    /\ run' = "second"
    /\ pc' = "start"
    /\ download_folder' = None /\ listing' = <<>> /\ idx' = 1
    /\ ResetItem
    /\ UNCHANGED <<pureVars, fsVars, wrote1>>

Next ==
    \/ MainStart
    \/ MainLoopEntry
    \/ ProcessVideoFile
    \/ MainKeyword
    \/ ProcessResult
    \/ NextEntry
    \/ MainLoopEnd
    \/ Rerun

Spec == Init /\ [][Next]_vars

\* The driver, and get_subtitle_page_content called on its own.
SpecDetail == (Init \/ (InitPure /\ fn = "detail")) /\ [][Next \/ ApplyDetail]_vars

(***************************************************************************)
(* javstd.main: the orchestrated run.  os.walk(src_path) is the list of    *)
(* the files it yields, in order; an entry is [name, num, chinese]: the    *)
(* file's name and what extract_info_from_nfo makes of the NFO file next   *)
(* to it (num = None when the file is missing, unreadable or has no num).  *)
(***************************************************************************)
\* CONFIG["javstd"]
src_path == "V"
save_path == "S"

\* extract_info_from_nfo(nfo_path)
extract_info_from_nfo(entry) == <<entry.num, entry.chinese>>

\* What the orchestrator is given to expect of subtitle_handler, which
\* runs the pipeline for an identifier with save_path as output folder and
\* returns a list of one result: it raises, or reports a failure, or has
\* written the file at the destination download_chinese_subtitle chose and
\* reports that path.
HandlerOutcomes == {"raises", "failed", "zh-CN", "zh-TW"}

subtitle_handler(jav_number, folder, outcome) ==
    IF outcome = "raises"
    THEN [raised |-> TRUE, results |-> <<>>, files |-> files]
    ELSE IF outcome = "failed"
    THEN [raised |-> FALSE, files |-> files,
          results |-> << [success |-> FALSE, path |-> ""] >>]
    ELSE LET info == [download_links |-> (outcome :> (Site \o "/dl/" \o outcome))]
             path == download_chinese_subtitle(info, jav_number, folder)[3]
         IN  [raised |-> FALSE, files |-> files \cup {path},
              results |-> << [success |-> TRUE, path |-> path] >>]

\* A slip: only the last extension is dropped.
NewPath_one_split(result_path) ==
    SubSeq(result_path, 1, RFind(result_path, ".") - 1) \o ".srt"

\* result_path.rsplit('.', 2)[0] + '.srt', for a path with two dots or more
NewPath(result_path) ==
    LET i == RFind(result_path, ".")
        j == RFindFrom(result_path, ".", i - 1)
    IN  SubSeq(result_path, 1, j - 1) \o ".srt"

\* os.rename(src, dst) on the files fs: it fails when src is missing or
\* when the system refuses
os_rename(src, dst, fs, refused) ==
    IF src \notin fs \/ refused
    THEN [raised |-> TRUE, files |-> fs]
    ELSE [raised |-> FALSE, files |-> (fs \ {src}) \cup {dst}]

WalkPool ==
    { [name |-> "AB-1.mp4",    num |-> "AB-1", chinese |-> FALSE],
      [name |-> "CD-2.MKV",    num |-> "CD-2", chinese |-> FALSE],
      [name |-> "AB-1.mp4",    num |-> "AB-1", chinese |-> TRUE],
      [name |-> "AB-1-C.mp4",  num |-> "AB-1", chinese |-> FALSE],
      [name |-> "Trailer.mp4", num |-> "CD-2", chinese |-> FALSE],
      [name |-> "x.mp4",       num |-> None,   chinese |-> FALSE],
      [name |-> "AB-1.nfo",    num |-> "AB-1", chinese |-> FALSE] }

\* the subtitle library before the first run
LibraryFiles == { {}, {"AB-1.srt"}, {"AB-1.zh-TW.srt"}, {"AB-1.zh-CN.srt"} }

InitJavstd ==
    /\ fn = "javstd" /\ arg = None /\ ret = None /\ applied = FALSE
    /\ mode = "orchestrated"
    /\ input_arg = src_path /\ output_dir = save_path
    /\ entries \in SeqsUpTo(WalkPool, MaxEntries)
    /\ \E pre \in LibraryFiles : files = {Join(save_path, n) : n \in pre}
    /\ dirs = {".", src_path, save_path}
    /\ run = "first" /\ pc = "walk"
    /\ download_folder = None /\ listing = <<>> /\ idx = 1
    /\ NoItem
    /\ wrote1 = {}

\* `continue`: the walk goes on with the next file
Continue(text) ==
    /\ message' = text
    /\ idx' = idx + 1
    /\ pc' = "walk"
    /\ keyword' = None

\* main, lines 183-219: one file of the walk, up to the call of the handler
JavstdEntry ==
    /\ pc = "walk" /\ idx <= Len(entries)
    /\ LET filename      == entries[idx].name
           info          == extract_info_from_nfo(entries[idx])
           jav_number    == info[1]
           subtitle_path == Join(save_path, jav_number \o ".srt")
       IN  IF ~is_video_file(filename) THEN Continue("")
           ELSE IF Contains(Lower(filename), "trailer") THEN Continue("")
           ELSE IF Contains(filename, "-C") THEN Continue("skip: -C in the name")
           ELSE IF jav_number \in {None, ""} THEN Continue("no jav_number")
           ELSE IF info[2] THEN Continue("skip: NFO marks Chinese subtitles")
           ELSE IF subtitle_path \in files \cup dirs THEN Continue("skip: subtitle exists")
           ELSE /\ message' = "get subtitle"
                /\ keyword' = jav_number
                /\ pc' = "handler"
                /\ UNCHANGED idx
    /\ results' = <<>>
    /\ UNCHANGED <<pureVars, fsVars, run, download_folder, listing, video_path,
                   filename_for_srt, cand, histVars>>

\* main, lines 220-237: the handler is called, and a zh-CN file renamed
JavstdHandle ==
    /\ pc = "handler"
    /\ \E outcome \in HandlerOutcomes, refused \in BOOLEAN :
        LET h == subtitle_handler(keyword, save_path, outcome)
        IN  /\ invoked' = invoked + 1
            /\ results' = h.results
            /\ IF h.raised
               THEN /\ ~refused
                    /\ message' = "failed"
                    /\ files' = h.files
                    /\ UNCHANGED wrote1
               ELSE IF ~h.results[1].success
               THEN /\ ~refused
                    /\ message' = "failed"
                    /\ files' = h.files
                    /\ UNCHANGED wrote1
               ELSE LET result_path == h.results[1].path
                    IN  IF EndsWith(result_path, ".zh-CN.srt")
                        THEN LET new_path == NewPath(result_path)
                                 r == os_rename(result_path, new_path, h.files, refused)
                             IN  /\ files' = r.files
                                 /\ message' = IF r.raised THEN "failed"
                                               ELSE "saved " \o new_path
                                 /\ wrote1' = IF ~r.raised /\ run = "first"
                                              THEN wrote1 \cup {idx} ELSE wrote1
                        ELSE /\ ~refused
                             /\ files' = h.files
                             /\ message' = "saved " \o result_path
                             /\ UNCHANGED wrote1
    /\ idx' = idx + 1
    /\ pc' = "walk"
    /\ UNCHANGED <<pureVars, mode, input_arg, output_dir, entries, dirs, run,
                   download_folder, listing, video_path, keyword, filename_for_srt,
                   cand, calls, targets, existed>>

\* main, lines 183 and 240: the walk is over
JavstdEnd ==
    /\ pc = "walk" /\ idx > Len(entries)
    /\ pc' = "done"
    /\ UNCHANGED <<pureVars, fsVars, run, download_folder, listing, idx, video_path,
                   keyword, filename_for_srt, results, cand, message, histVars>>

\* The orchestrator is run again on the same tree and library.
JavstdRerun ==
    /\ pc = "done" /\ run = "first"
    /\ run' = "second"
    /\ pc' = "walk" /\ idx' = 1
    /\ keyword' = None /\ results' = <<>> /\ message' = "" /\ invoked' = 0
    /\ UNCHANGED <<pureVars, fsVars, download_folder, listing, video_path,
                   filename_for_srt, cand, calls, targets, existed, wrote1>>

NextJavstd ==
    \/ JavstdEntry
    \/ JavstdHandle
    \/ JavstdEnd
    \/ JavstdRerun

SpecJavstd == InitJavstd /\ [][NextJavstd]_vars

(***************************************************************************)
(* Properties of the functions, checked under SpecPure.                    *)
(***************************************************************************)
\* C6: download_chinese_subtitle returns the zh-CN URL, the label
\* 'Chinese Simplified (zh-CN)' and outputFolder/baseName.zh-CN.srt whenever
\* the mapping has zh-CN; with zh-TW only, the zh-TW URL, the label
\* 'Chinese Traditional (zh-TW)' and outputFolder/baseName.zh-TW.srt; with
\* neither, (None, None, None).
C6_SelectDownload ==
    (applied /\ fn = "select") =>
        LET m == arg.chinese_info.download_links
            b == arg.filename_for_srt
            d == arg.download_folder
        IN  /\ "zh-CN" \in DOMAIN m =>
                   ret = << m["zh-CN"], "Chinese Simplified (zh-CN)",
                            InFolder(d, b \o ".zh-CN.srt") >>
            /\ ("zh-CN" \notin DOMAIN m /\ "zh-TW" \in DOMAIN m) =>
                   ret = << m["zh-TW"], "Chinese Traditional (zh-TW)",
                            InFolder(d, b \o ".zh-TW.srt") >>
            /\ DOMAIN m = {} => ret = << None, None, None >>

\* p is one-or-more ASCII letters, a hyphen, one-or-more digits
IsKeywordForm(p) ==
    \E k \in 1..Len(p) :
        /\ \A i \in 1..k : IsLetter(Ch(p, i))
        /\ Ch(p, k + 1) = "-"
        /\ Len(p) >= k + 2
        /\ \A i \in (k + 2)..Len(p) : IsDigit(Ch(p, i))

\* the prefixes of s of that form
KeywordPrefixes(s) == {p \in {SubSeq(s, 1, n) : n \in 1..Len(s)} : IsKeywordForm(p)}

\* r is the longest letters-hyphen-digits prefix of s
IsMaximalPrefix(r, s) ==
    r \in KeywordPrefixes(s) /\ \A p \in KeywordPrefixes(s) : Len(p) <= Len(r)

\* C7: for every string that begins with letters, a hyphen and digits,
\* extract_keyword returns exactly the maximal such prefix, case preserved,
\* whatever follows it.
C7_ExtractPrefix ==
    (applied /\ fn = "extract" /\ KeywordPrefixes(arg) # {}) => IsMaximalPrefix(ret, arg)

C7_Witness ==
    /\ applied /\ fn = "extract"
    /\ Cardinality(KeywordPrefixes(arg)) > 1
    /\ Len(ret) < Len(arg)
    /\ IsUpper(Ch(ret, 1))

\* C8: when the raw input has no such prefix, extract_keyword returns the
\* prefix of the base name (directories and extension stripped) if it has
\* one, and None otherwise.
C8_ExtractBaseName ==
    (applied /\ fn = "extract" /\ KeywordPrefixes(arg) = {}) =>
        LET base == Splitext(Basename(arg))[1]
        IN  IF KeywordPrefixes(base) # {}
            THEN IsMaximalPrefix(ret, base)
            ELSE ret = None

C8_Witness ==
    /\ applied /\ fn = "extract"
    /\ KeywordPrefixes(arg) = {}
    /\ ret # None
    /\ Contains(arg, "/")

\* C9: a URL starting with '/' becomes the site followed by the URL; a bare
\* path that starts with neither 'http://' nor 'https://' becomes the site,
\* '/', the path; an absolute URL is unchanged; resolving the result again
\* changes nothing.
C9_FormatUrl ==
    (applied /\ fn = "url") =>
        LET absolute == StartsWith(arg, "http://") \/ StartsWith(arg, "https://")
        IN  /\ StartsWith(arg, "/") => ret = Site \o arg
            /\ (~StartsWith(arg, "/") /\ ~absolute) => ret = Site \o "/" \o arg
            /\ absolute => ret = arg
            /\ format_subtitlecat_url(ret) = ret

C9_Witness ==
    /\ applied /\ fn = "url"
    /\ StartsWith(arg, "http") /\ ~StartsWith(arg, "http://")
    /\ ret = Site \o "/" \o arg

\* the anchor's text contains the identifier, whatever the case
TextHasIdentifier(text, kw) ==
    \E i \in 0..Len(text) :
        /\ i + Len(kw) <= Len(text)
        /\ Lower(SubSeq(text, i + 1, i + Len(kw))) = Lower(kw)

\* the i-th anchor of the row is a hyperlink and is relevant
RelevantAt(row, i, kw) ==
    /\ row.anchors[i].href # None
    /\ \/ TextHasIdentifier(row.anchors[i].text, kw)
       \/ Contains(row.anchors[i].href, "/view.php?")
       \/ Contains(row.anchors[i].href, "/subs/")

RelevantRows(rows, kw) ==
    {r \in 1..Len(rows) : \E i \in 1..Len(rows[r].anchors) : RelevantAt(rows[r], i, kw)}

FirstRelevant(row, kw) ==
    CHOOSE i \in 1..Len(row.anchors) :
        RelevantAt(row, i, kw) /\ \A j \in 1..(i - 1) : ~RelevantAt(row, j, kw)

\* C10: one result per row that has a relevant hyperlink, none for other
\* rows, in document order, duplicates kept; the result is built from the
\* row's first relevant hyperlink, its language the (trimmed) text of the
\* row's second cell when there is one and empty otherwise.
C10_ParseResults ==
    (applied /\ fn = "parse") =>
        LET rows == arg.rows
            kw   == arg.keyword
            rel  == RelevantRows(rows, kw)
            Rank(r) == Cardinality({q \in rel : q <= r})
        IN  /\ Len(ret) = Cardinality(rel)
            /\ \A r \in rel :
                  LET a == rows[r].anchors[FirstRelevant(rows[r], kw)]
                  IN  /\ ret[Rank(r)].title = Strip(a.text)
                      /\ EndsWith(ret[Rank(r)].url, a.href)
                      /\ StartsWith(ret[Rank(r)].url, "http")
                      /\ ret[Rank(r)].language =
                            IF Len(rows[r].cells) > 1 THEN Strip(rows[r].cells[2]) ELSE ""

C10_Witness ==
    /\ applied /\ fn = "parse"
    /\ Len(arg.rows) = 2 /\ Len(ret) = 2 /\ ret[1] = ret[2]
    /\ Len(arg.rows[1].anchors) = 2
    /\ ~RelevantAt(arg.rows[1], 1, arg.keyword)
    /\ ret[1].language = "zh"

\* C14: the address of every result is what format_subtitlecat_url makes
\* of the target of the anchor the result was built from.
C14_ParserUsesResolver ==
    (applied /\ fn = "parse") =>
        LET rows == arg.rows
            kw   == arg.keyword
            rel  == RelevantRows(rows, kw)
            Rank(r) == Cardinality({q \in rel : q <= r})
        IN  \A r \in rel :
                ret[Rank(r)].url =
                    format_subtitlecat_url(rows[r].anchors[FirstRelevant(rows[r], kw)].href)


\* the text contains 'download', whatever the case
SaysDownload(text) ==
    \E i \in 0..Len(text) :
        /\ i + 8 <= Len(text)
        /\ Lower(SubSeq(text, i + 1, i + 8)) = "download"

\* the download anchors of the page that carry the variant tag
TagAnchors(anchors, tag) ==
    {i \in 1..Len(anchors) :
        /\ anchors[i].cls
        /\ SaysDownload(Get(anchors[i].id)) \/ SaysDownload(anchors[i].text)
        /\ Contains(Get(anchors[i].id), tag) \/ Contains(Get(anchors[i].href), tag)}

\* the last of a non-empty set of positions
Last(S) == CHOOSE i \in S : \A j \in S : j <= i

\* the target as an absolute URL of the site
Absolute(target) ==
    IF StartsWith(target, "/") THEN Site \o target
    ELSE IF StartsWith(target, "http://") \/ StartsWith(target, "https://") THEN target
    ELSE Site \o "/" \o target

\* C11: for each variant tag, the flag is true and the link present exactly
\* when some download anchor carries the tag in its id or its target, and
\* the link is then the absolute target of the last such anchor; a page
\* without such an anchor gives both flags false and no link.
C11_ChineseDownloads ==
    (applied /\ fn = "buttons") =>
        /\ ret.chinese_simplified = (TagAnchors(arg, "zh-CN") # {})
        /\ ret.chinese_traditional = (TagAnchors(arg, "zh-TW") # {})
        /\ \A tag \in {"zh-CN", "zh-TW"} :
              /\ tag \in DOMAIN ret.download_links <=> TagAnchors(arg, tag) # {}
              /\ TagAnchors(arg, tag) # {} =>
                    ret.download_links[tag] =
                        Absolute(Get(arg[Last(TagAnchors(arg, tag))].href))
        /\ DOMAIN ret.download_links \subseteq {"zh-CN", "zh-TW"}

C11_Witness ==
    /\ applied /\ fn = "buttons"
    /\ Cardinality(TagAnchors(arg, "zh-CN")) = 2
    /\ ret.chinese_simplified /\ ~ret.chinese_traditional
    /\ ret.download_links["zh-CN"] = "https://h/f"
    /\ arg[1].href # arg[2].href


FileFetches == {i \in 1..Len(calls) : calls[i] = "file"}

\* the searches of the current item
Searches == {i \in 1..Len(calls) : calls[i] = "search"}

\* C1: in folder mode, when the driver is run a second time on the same
\* folder with the same output folder, an entry whose subtitle file the
\* first run wrote causes no network call in the second run, whatever
\* follows the identifier in its name.
C1_Idempotent ==
    (mode = "folder" /\ run = "second" /\ idx \in wrote1) => calls = <<>>

\* C2: in folder mode and in single-file mode, an item for whose identifier
\* K one of D/K.zh-CN.srt, D/K.zh-TW.srt, D/K.srt existed when the item was
\* considered causes no network call.
C2_ExistingShortCircuits ==
    (mode \in {"folder", "file"} /\ existed) => calls = <<>>

C2_Witness ==
    /\ mode = "folder" /\ pc = "next" /\ existed /\ calls = <<>>
    /\ files = {InFolder(download_folder, "AB-1.srt")}

\* C3: for one item at most one download target is resolved and at most one
\* subtitle file is fetched, however many results the search returned.
C3_AtMostOneDownload ==
    targets <= 1 /\ Cardinality(FileFetches) <= 1

\* how far the runs have got: the run, the entry, the place in the handling
\* of the entry, the candidate
PcRank ==
    CASE pc = "start" -> 0
      [] pc = "loop"  -> 1
      [] pc = "pvf"   -> 2
      [] pc = "cand"  -> 3
      [] pc = "next"  -> 4
      [] OTHER        -> 5

Measure == <<IF run = "first" THEN 1 ELSE 2, idx, PcRank, cand>>

\* a is before b in the lexicographic order
RECURSIVE LexLess(_, _)
LexLess(a, b) ==
    /\ a # <<>>
    /\ \/ Head(a) < Head(b)
       \/ Head(a) = Head(b) /\ LexLess(Tail(a), Tail(b))

\* C4: in folder mode no outcome of an item aborts the run.  No exception
\* escapes: the driver is always at one of its steps, with an entry or a
\* candidate to take there; every step takes the run further, through the
\* entries one after the other; and the run is complete only when every
\* entry has been considered.
C4_NoAbort ==
    /\ [](mode = "folder" =>
            /\ pc \in {"start", "loop", "pvf", "cand", "next", "done"}
            /\ (pc \in {"pvf", "cand", "next"} => idx <= Len(listing))
            /\ (pc = "cand" => cand <= Len(results))
            /\ (pc = "done" => idx = Len(listing) + 1))
    /\ [][mode = "folder" =>
            /\ LexLess(Measure, Measure')
            /\ idx' # idx => \/ (pc = "next" /\ idx' = idx + 1)
                              \/ (pc = "done" /\ idx' = 1)]_vars

C4_Witness ==
    /\ mode = "folder" /\ pc = "done" /\ run = "first"
    /\ Len(entries) = 2 /\ idx = Len(listing) + 1
    /\ \A i \in 1..2 : entries[i].name \in {"AB-1.mp4", "AB-1-x.MKV"}
    /\ download_folder \in dirs /\ download_folder # input_arg
    /\ files = {}

\* the entry is one the driver has to process: not hidden, a regular file
\* with a video extension, with an identifier in its path or its base name,
\* and without a subtitle at the destination when it was considered
Eligible(e) ==
    /\ ~StartsWith(e.name, ".") /\ ~e.hidden
    /\ e.kind = "file"
    /\ \E ext \in video_extensions : EndsWith(Lower(e.name), ext)
    /\ \/ KeywordPrefixes(Join(input_arg, e.name)) # {}
       \/ KeywordPrefixes(Splitext(e.name)[1]) # {}
    /\ ~existed

\* C5: in folder mode the remote pipeline runs for an entry only if the
\* entry is eligible, and it runs exactly once for every eligible entry.
C5_PipelineInvokedOnce ==
    (mode = "folder" /\ pc \in {"pvf", "cand", "next"}) =>
        /\ invoked = (IF Eligible(listing[idx]) THEN 1 ELSE 0)
        /\ calls # <<>> => invoked = 1
        /\ (invoked = 1 /\ pc # "pvf") => Cardinality(Searches) = 1

C5_Witness ==
    /\ mode = "folder" /\ pc = "next" /\ idx = 2
    /\ listing[1].hidden
    /\ listing[2].name = "AB-1-x.MKV"
    /\ invoked = 1 /\ Len(calls) > 1


\* C12: get_subtitle_page_content returns an outcome for every URL and
\* every response: one with an 'error' for an empty or non-string URL and
\* for a request or parse failure, one with 'status' = success otherwise,
\* and never both; and the driver passes over a candidate whose outcome has
\* an error: the detail fetch is its only network call, no target is
\* resolved and the file system stays as it was.
C12_DetailNeverRaises ==
    /\ []((fn = "detail" /\ applied) =>
            LET failed == \/ arg.url = "" \/ arg.url \in {None, NotAStr}
                          \/ arg.response.kind # "page"
            IN  /\ ("error" \in DOMAIN ret) <=> failed
                /\ ("status" \in DOMAIN ret) <=> ~failed
                /\ "status" \in DOMAIN ret => ret.status = "success")
    /\ [][(fn = "driver" /\ pc = "cand"
                         /\ message' = "Error fetching result page content") =>
            /\ calls' = Append(calls, "detail")
            /\ targets' = targets
            /\ files' = files /\ dirs' = dirs
            /\ cand' = cand + 1]_vars

C12_Witness ==
    /\ fn = "detail" /\ applied
    /\ arg.url = NotAStr /\ arg.response.kind = "page"
    /\ "error" \in DOMAIN ret /\ "status" \notin DOMAIN ret


\* the messages of a download that failed before anything was received
RequestFailures == {"Error creating download folder", "Error downloading subtitle"}

\* C17: a download whose request fails leaves the files as they were, and
\* at most creates the folder of the destination, so the existence check of
\* the item's identifier answers after it what it answered before; a file
\* appears only once a request has succeeded.
C17_FailedDownloadNoFile ==
    [][fn = "driver" =>
            /\ (pc = "cand" /\ message' \in RequestFailures) =>
                  /\ files' = files
                  /\ dirs' \subseteq
                        dirs \cup {Dirname(Join(download_folder, filename_for_srt \o ".srt"))}
                  /\ is_subtitle_exists(keyword, download_folder)' =
                        is_subtitle_exists(keyword, download_folder)
            /\ files' # files =>
                  /\ message' \in {"Subtitle downloaded successfully", "Error saving subtitle"}
                  /\ Cardinality(FileFetches') = Cardinality(FileFetches) + 1
                  /\ files \subseteq files']_vars

C17_Witness ==
    /\ fn = "driver" /\ mode = "file" /\ pc = "done" /\ run = "first"
    /\ message = "Error downloading subtitle"
    /\ download_folder \in dirs /\ download_folder = "o"
    /\ files = {}

\* the detail fetches of the current item
DetailFetches == {i \in 1..Len(calls) : calls[i] = "detail"}

\* the network calls of an item, at any moment: one search first; detail
\* fetches only once the search has given results, one for each candidate
\* taken so far; a file fetch only right after the detail fetch of its
\* candidate, and only for a candidate that gave a download target
PipelineOrder ==
    /\ calls # <<>> => Searches = {1}
    /\ DetailFetches # {} => results # <<>>
    /\ Cardinality(DetailFetches) = cand - 1
    /\ \A i \in FileFetches : i > 1 /\ calls[i - 1] = "detail"
    /\ Cardinality(FileFetches) <= targets
    /\ message \in {"Failed to retrieve search results.", "No results found."} =>
           calls = <<"search">>

\* a step that makes network calls makes them for the current item, after
\* the ones the item has made; a file fetch comes with a new target; the
\* driver moves to another item only from the end of the current one, and
\* then the log starts empty
PipelineStep ==
    /\ (calls' # calls /\ calls' # <<>>) =>
          /\ pc \in {"pvf", "kw", "cand"}
          /\ idx' = idx /\ run' = run
          /\ Len(calls') > Len(calls)
          /\ SubSeq(calls', 1, Len(calls)) = calls
    /\ Cardinality(FileFetches') > Cardinality(FileFetches) =>
          /\ targets' = targets + 1
          /\ Cardinality(FileFetches') = Cardinality(FileFetches) + 1
    /\ (idx' # idx \/ run' # run) =>
          /\ pc \in {"next", "done"}
          /\ calls' = <<>>
          /\ run' = run => idx' = idx + 1

\* C15: within an item the detail fetches follow a successful search and a
\* file fetch follows the detail fetch of a candidate with a download
\* target; a failed search is the item's only network call; the network
\* calls of one item are all made before the driver takes the next item.
C15_PipelineOrdering ==
    /\ [](fn = "driver" => PipelineOrder)
    /\ [][fn = "driver" => PipelineStep]_vars

C15_Witness ==
    /\ fn = "driver" /\ mode = "folder" /\ run = "first" /\ idx = 2
    /\ calls = <<"search", "detail", "detail", "file">>
    /\ pc = "next"


(***************************************************************************)
(* Properties of the orchestrated run, checked under SpecJavstd.           *)
(***************************************************************************)
\* the file of the walk that main asks a subtitle for unless one is there:
\* a video that is no trailer, without -C in its name, with an identifier
IsItem(entry) ==
    /\ is_video_file(entry.name)
    /\ ~Contains(Lower(entry.name), "trailer")
    /\ ~Contains(entry.name, "-C")
    /\ entry.num \notin {None, ""}

\* the handler's call for identifier keyword ended with the item saved
Saved(tag) ==
    /\ pc = "handler" /\ results' # <<>> /\ results'[1].success
    /\ results'[1].path = Join(save_path, keyword \o "." \o tag \o ".srt")
    /\ StartsWith(message', "saved ")

========================================================================
